---------------------------- MODULE Spec2Model ----------------------------
(***************************************************************************)
(* Model of the Big Five LLM evaluation script: the model registry         *)
(* (utils/models.py), the evaluation runner (eval.py, run_evaluation) and  *)
(* the report writer (utils/results_handler.py, save_results).             *)
(*                                                                         *)
(* Strings that the code parses are sequences of chunks: a chunk is either *)
(* the separator ":" or a maximal piece of text without a colon.           *)
(***************************************************************************)
EXTENDS Integers, Sequences, FiniteSets, TLC

(***************************************************************************)
(* Bounds of the model.                                                    *)
(***************************************************************************)
\* longest question bank of the run-focused specification
MaxQuestions == 2
\* longest question bank of the registry-focused specification
RegMaxQuestions == 1
\* longest requested list of model entries (batch "models" list)
MaxRequested == 2
\* longest question list and longest response list given to save_results
MaxReportItems == 2

(***************************************************************************)
(* Values.                                                                 *)
(***************************************************************************)
\* a text that is the key of no configuration
NoKey == "<no such key>"

\* PersonalityResponse.score: ge=1, le=5
MinScore == 1
MaxScore == 5
\* batch_params.get("default_error_score", 3)
FallbackDefault == 3

\* The answers a model gives in the runs explored (a subset of 1..5)
AnswerChoices == {2, 5}
\* The values a batch file gives parameters.default_error_score; 0 is falsy
\* like null, 6 is out of range
DefaultScoreChoices == {0, 1, 3, 5, 6}

Colon == ":"

(***************************************************************************)
(* ModelRegistry: configurations, credentials, environment.                *)
(***************************************************************************)
\* self.api_keys: one key per provider family
Providers == {"openai", "anthropic", "xai"}

\* _load_default_configs, one model per provider family
DefaultConfigs ==
    [p \in Providers |->
        CASE p = "openai" ->
               [id \in {"gpt-4o"} |->
                   [name |-> "GPT-4o", version |-> "OpenAI API, gpt-4o"]]
          [] p = "anthropic" ->
               [id \in {"claude-3-opus"} |->
                   [name |-> "Claude 3 Opus",
                    version |-> "Anthropic API, claude-3-opus-20240229"]]
          [] p = "xai" ->
               [id \in {"grok-beta"} |->
                   [name |-> "Grok", version |-> "xAI API, grok-beta"]]]

\* _load_configs from configs/models/*.yaml: one provider file whose two
\* model ids carry the same display name
YamlConfigs ==
    [p \in {"openai"} |->
        [id \in {"gpt-4o", "gpt-4o-2024"} |->
            [name |-> "GPT-4o",
             version |-> IF id = "gpt-4o" THEN "OpenAI API, gpt-4o"
                                          ELSE "OpenAI API, gpt-4o-2024"]]]

ConfigChoices == {DefaultConfigs, YamlConfigs}

\* f"{provider}:{model_id}"
SpecString(provider, model_id) == <<provider, Colon, model_id>>

\* ":" not in model_spec
HasColon(s) == \E i \in 1..Len(s) : s[i] = Colon

\* index of the first ":" of s
FirstColon(s) == CHOOSE i \in 1..Len(s) :
                    s[i] = Colon /\ \A j \in 1..(i - 1) : s[j] # Colon

\* model_spec.split(":", 1): the text before the first colon, the text after
SplitSpec(s) == [provider |-> SubSeq(s, 1, FirstColon(s) - 1),
                 model_id |-> SubSeq(s, FirstColon(s) + 1, Len(s))]

\* a split piece as a dictionary key: one colon-free chunk is that text,
\* anything else ("" or text holding a colon) is a key no configuration has
AsKey(piece) == IF Len(piece) = 1 /\ piece[1] # Colon THEN piece[1] ELSE NoKey

\* .upper().replace("-", "_") of the identifiers of the configurations
Normalize(text) ==
    CASE text = "gpt-4o" -> "GPT_4O"
      [] text = "gpt-4o-2024" -> "GPT_4O_2024"
      [] text = "claude-3-opus" -> "CLAUDE_3_OPUS"
      [] text = "grok-beta" -> "GROK_BETA"
      [] text = "openai" -> "OPENAI"
      [] text = "anthropic" -> "ANTHROPIC"
      [] text = "xai" -> "XAI"
      [] OTHER -> text

\* env_var = f"ENABLE_{provider}_{model_id}".upper().replace("-", "_")
EnvVar(provider, model_id) == <<"ENABLE", Normalize(provider), Normalize(model_id)>>

(***************************************************************************)
(* State.                                                                  *)
(***************************************************************************)
VARIABLES
    \* inputs of the run
    configs,          \* ModelRegistry.configs: provider -> model id -> config
    api_keys,         \* the providers whose API key is set
    env_false,        \* the ENABLE_* environment variables set to "false"
    selected_model,   \* --model: a "provider:model_id" string, <<>> if not given
    batch_file,       \* --batch: not given, unreadable, or the YAML document
    bank,             \* prompts/bfi_subset.txt: "unreadable" or the question list
    list_models,      \* --list-models
    \* run_evaluation
    pc,               \* the statement run_evaluation is at
    questions,        \* the question list of the run
    models,           \* dict name -> client, as the sequence of its items
    model_versions,   \* dict name -> version string
    default_error_score,
    retry_failed,
    mi,               \* position of the model being evaluated in models
    qi,               \* position of the question being asked
    responses,        \* responses of the model being evaluated
    errors,           \* errors of the model being evaluated
    all_evaluations,  \* the ModelEvaluation records built so far
    results,          \* the EvaluationResults, <<>> until built
    report,           \* what save_results wrote, <<>> until it ran
    printed,          \* the lines printed for --list-models, in order
    summary,          \* what display_results_summary showed, <<>> until it ran
    \* history, read by no action
    initialized,      \* the entries whose constructor returned, in order
    model_specs,      \* the list of entries initialize_models went through
    ctor_raised,      \* the positions of model_specs whose constructor raised
    invocations       \* every chain.invoke made, in order

vars == <<configs, api_keys, env_false, selected_model, batch_file, bank,
          list_models, pc, questions, models, model_versions,
          default_error_score, retry_failed, mi, qi, responses, errors,
          all_evaluations, results, report, printed, summary, initialized,
          model_specs, ctor_raised, invocations>>

inputs == <<configs, api_keys, env_false, selected_model, batch_file, bank,
            list_models>>

(***************************************************************************)
(* ModelRegistry.list_available_models and initialize_models.              *)
(***************************************************************************)
\* iteration order of self.configs.items() and of each provider's models
ConfigOrder == << <<"openai", "gpt-4o">>, <<"openai", "gpt-4o-2024">>,
                  <<"anthropic", "claude-3-opus">>, <<"xai", "grok-beta">> >>

Configured(provider, model_id) ==
    /\ provider \in DOMAIN configs
    /\ model_id \in DOMAIN configs[provider]

\* a listing that does not look at the credentials
RECURSIVE AvailableFromAll(_)
AvailableFromAll(k) ==
    IF k > Len(ConfigOrder) THEN <<>>
    ELSE LET provider == ConfigOrder[k][1]
             model_id == ConfigOrder[k][2]
         IN  IF Configured(provider, model_id)
             THEN <<SpecString(provider, model_id)>> \o AvailableFromAll(k + 1)
             ELSE AvailableFromAll(k + 1)

RECURSIVE AvailableFrom(_)
AvailableFrom(k) ==
    IF k > Len(ConfigOrder) THEN <<>>
    ELSE LET provider == ConfigOrder[k][1]
             model_id == ConfigOrder[k][2]
         IN  IF Configured(provider, model_id) /\ provider \in api_keys
             THEN <<SpecString(provider, model_id)>> \o AvailableFrom(k + 1)
             ELSE AvailableFrom(k + 1)

list_available_models == AvailableFrom(1)

\* A Python value that is a list, a string, or missing/None
NoValue == [type |-> "none", val |-> <<>>]
ListOf(entries) == [type |-> "list", val |-> entries]
StrOf(text) == [type |-> "str", val |-> text]

\* Python truthiness of a list, a string or None
Truthy(v) == v.type # "none" /\ v.val # <<>>

\* yaml.safe_load(f).get("models", [])
BatchModels == IF batch_file.models.type = "none" THEN ListOf(<<>>)
               ELSE batch_file.models

\* [selected_model] if selected_model else None
SelectedModels == IF selected_model # <<>> THEN ListOf(<<selected_model>>)
                  ELSE NoValue

\* a precedence that lets the single selection win over the batch list
ChosenSpecsSelectionFirst ==
    LET batch_config == IF batch_file.kind = "yaml" THEN BatchModels
                        ELSE ListOf(<<>>)
        chosen == IF Truthy(SelectedModels) THEN SelectedModels
                  ELSE IF Truthy(batch_config) THEN batch_config
                  ELSE ListOf(list_available_models)
    IN  IF chosen.type = "str" THEN <<chosen.val>> ELSE chosen.val

\* batch_config or selected_models or self.list_available_models(), then a
\* single string is made a list of one
ChosenSpecs ==
    LET batch_config == IF batch_file.kind = "yaml" THEN BatchModels
                        ELSE ListOf(<<>>)
        chosen == IF Truthy(batch_config) THEN batch_config
                  ELSE IF Truthy(SelectedModels) THEN SelectedModels
                  ELSE ListOf(list_available_models)
    IN  IF chosen.type = "str" THEN <<chosen.val>> ELSE chosen.val

\* the checks an entry passes before its constructor is called
Eligible(model_spec) ==
    /\ HasColon(model_spec)
    /\ LET provider == AsKey(SplitSpec(model_spec).provider)
           model_id == AsKey(SplitSpec(model_spec).model_id)
       IN  /\ Configured(provider, model_id)
           /\ provider \in api_keys
           /\ EnvVar(provider, model_id) \notin env_false

ConfigOf(model_spec) ==
    configs[AsKey(SplitSpec(model_spec).provider)][AsKey(SplitSpec(model_spec).model_id)]

\* d[key] = value on a dict kept as the sequence of its items: an existing
\* key keeps its position
DictSet(d, key, value) ==
    IF \E i \in 1..Len(d) : d[i].name = key
    THEN [i \in 1..Len(d) |-> IF d[i].name = key
                              THEN [name |-> key, value |-> value] ELSE d[i]]
    ELSE Append(d, [name |-> key, value |-> value])

DictGet(d, key) == d[CHOOSE i \in 1..Len(d) : d[i].name = key].value

\* the positions of specs whose entry reaches the try block (lines 181-194)
ConstructedAt(specs) == {k \in 1..Len(specs) : Eligible(specs[k])}

\* a loop that ends at the first entry it cannot initialize
RECURSIVE InitializeFromStops(_, _, _, _)
InitializeFromStops(specs, k, raising, acc) ==
    IF k > Len(specs) THEN acc
    ELSE LET model_spec == specs[k]
         IN  IF ~Eligible(model_spec) \/ k \in raising
             THEN acc
             ELSE InitializeFromStops(specs, k + 1, raising,
                     [models |-> DictSet(acc.models, ConfigOf(model_spec).name,
                                         model_spec),
                      model_versions |->
                          DictSet(acc.model_versions, ConfigOf(model_spec).name,
                                  ConfigOf(model_spec).version),
                      initialized |-> Append(acc.initialized, model_spec),
                      model_specs |-> specs])

\* the for loop over model_specs; raising is the set of positions whose
\* constructor raises
RECURSIVE InitializeFrom(_, _, _, _)
InitializeFrom(specs, k, raising, acc) ==
    IF k > Len(specs) THEN acc
    ELSE LET model_spec == specs[k]
         IN  IF ~Eligible(model_spec) \/ k \in raising
             THEN InitializeFrom(specs, k + 1, raising, acc)
             ELSE InitializeFrom(specs, k + 1, raising,
                     [models |-> DictSet(acc.models, ConfigOf(model_spec).name,
                                         model_spec),
                      model_versions |->
                          DictSet(acc.model_versions, ConfigOf(model_spec).name,
                                  ConfigOf(model_spec).version),
                      initialized |-> Append(acc.initialized, model_spec),
                      model_specs |-> specs])

NoModels == [models |-> <<>>, model_versions |-> <<>>, initialized |-> <<>>,
             model_specs |-> <<>>]

\* a batch file that cannot be read is treated as no batch file
initialize_models_despite_unreadable(raising) ==
    InitializeFrom(ChosenSpecs, 1, raising,
                   [NoModels EXCEPT !.model_specs = ChosenSpecs])

\* ModelRegistry.initialize_models
initialize_models(raising) ==
    IF batch_file.kind = "unreadable" THEN NoModels
    ELSE InitializeFrom(ChosenSpecs, 1, raising,
                        [NoModels EXCEPT !.model_specs = ChosenSpecs])

(***************************************************************************)
(* run_evaluation.                                                         *)
(***************************************************************************)
\* an Optional value: <<>> is None (or a missing key), <<v>> is v
Nothing == <<>>
Some(v) == <<v>>

\* the question at position i of the bank: trait and reverse flag
TraitAt(i) == IF i % 2 = 1 THEN "Extraversion" ELSE "Neuroticism"
ReverseAt(i) == i % 3 # 1
QuestionAt(i) == [question |-> i, trait |-> TraitAt(i), reverse |-> ReverseAt(i)]
BankOf(n) == [i \in 1..n |-> QuestionAt(i)]

\* PersonalityResponse(score=s); a None kept in responses to fill a gap
Scored(s) == [kind |-> "score", score |-> s]
NoneResponse == [kind |-> "none", score |-> 0]

\* str(e) of the exception of one invocation: no two invocations share it
ErrorText(model_name, q, attempt) ==
    [model |-> model_name, question |-> q, attempt |-> attempt]

\* ErrorResponse(error=error_msg,
\*               default_score=default_error_score if default_error_score else None)
ErrorResponse(error_msg, score) ==
    [error |-> error_msg,
     default_score |-> IF score # 0 THEN Some(score) ELSE Nothing]

\* "GPT" in model_name
HasGPT(model_name) == model_name = "GPT-4o"

\* model.with_structured_output(PersonalityResponse[, method="function_calling"])
WithStructuredOutput(d) ==
    [i \in 1..Len(d) |->
        [name |-> d[i].name,
         value |-> [client |-> d[i].value,
                    method |-> IF HasGPT(d[i].name) THEN "function_calling"
                               ELSE "default"]]]

\* batch_params.get(key, default)
ParamGet(key, default) ==
    IF batch_file.kind = "yaml" /\ batch_file.parameters[key] # Nothing
    THEN batch_file.parameters[key][1]
    ELSE default

\* questions[:max_questions] when max_questions is set and smaller
Truncated(qs) ==
    LET max_questions == ParamGet("max_questions_per_batch", 0)
    IN  IF max_questions # 0 /\ max_questions < Len(qs)
        THEN SubSeq(qs, 1, max_questions) ELSE qs

\* the model being evaluated
ModelName == models[mi].name

\* one chain.invoke: score is the answer, 0 when the call raised
Invocation(q, attempt, ok, score) ==
    [model |-> ModelName, question |-> q, attempt |-> attempt, ok |-> ok,
     score |-> score]

\* __main__, lines 268-274: --list-models prints the available models and
\* exits before run_evaluation is called
ListModels ==
    /\ pc = "start"
    /\ list_models
    /\ printed' = list_available_models
    /\ pc' = "exit"
    /\ UNCHANGED <<inputs, questions, models, model_versions,
                   default_error_score, retry_failed, mi, qi, responses, errors,
                   all_evaluations, results, report, initialized, model_specs,
                   ctor_raised, summary, invocations>>

\* __main__ line 276 and line 97: questions = load_bfi_questions()
LoadQuestions ==
    /\ pc = "start"
    /\ ~list_models
    /\ IF bank.kind = "unreadable"
       THEN pc' = "raised" /\ UNCHANGED questions
       ELSE pc' = "initialize" /\ questions' = bank.items
    /\ UNCHANGED <<inputs, models, model_versions, default_error_score,
                   retry_failed, mi, qi, responses, errors, all_evaluations,
                   results, report, initialized, model_specs, ctor_raised,
                   summary,
                   printed, invocations>>

\* lines 100-104: initialize_models, and the exit when no model initialized
InitializeModels ==
    /\ pc = "initialize"
    /\ \E raising \in SUBSET ConstructedAt(ChosenSpecs) :
          LET got == initialize_models(raising)
          IN  /\ models' = got.models
              /\ model_versions' = got.model_versions
              /\ initialized' = got.initialized
              /\ model_specs' = got.model_specs
              /\ ctor_raised' = IF got.model_specs = <<>> THEN {} ELSE raising
              /\ pc' = IF got.models = <<>> THEN "no_models" ELSE "configure"
    /\ UNCHANGED <<inputs, questions, default_error_score, retry_failed, mi, qi,
                   responses, errors, all_evaluations, results, report, printed,
                   summary,
                   invocations>>

\* lines 106-155: batch parameters, question limit, structured output
Configure ==
    /\ pc = "configure"
    /\ questions' = Truncated(questions)
    /\ models' = WithStructuredOutput(models)
    /\ default_error_score' = ParamGet("default_error_score", FallbackDefault)
    /\ retry_failed' = ParamGet("retry_failed", FALSE)
    /\ mi' = 1 /\ qi' = 1
    /\ responses' = <<>> /\ errors' = <<>>
    /\ pc' = "ask"
    /\ UNCHANGED <<inputs, model_versions, all_evaluations, results, report,
                   initialized,
                   model_specs, ctor_raised, summary,
                   printed, invocations>>

\* the response is put in front of the earlier ones
InvokeSucceedsInFront ==
    /\ pc = "ask" /\ qi <= Len(questions)
    /\ \E s \in AnswerChoices :
          /\ responses' = <<Scored(s)>> \o responses
          /\ invocations' = Append(invocations, Invocation(qi, 1, TRUE, s))
    /\ qi' = qi + 1
    /\ UNCHANGED <<inputs, pc, questions, models, model_versions,
                   default_error_score, retry_failed, mi, errors,
                   all_evaluations, results, report, printed, summary,
                   initialized, model_specs, ctor_raised>>

\* lines 163-171: the invocation returns a response
InvokeSucceeds ==
    /\ pc = "ask" /\ qi <= Len(questions)
    /\ \E s \in AnswerChoices :
          /\ responses' = Append(responses, Scored(s))
          /\ invocations' = Append(invocations, Invocation(qi, 1, TRUE, s))
    /\ qi' = qi + 1
    /\ UNCHANGED <<inputs, pc, questions, models, model_versions,
                   default_error_score, retry_failed, mi, errors,
                   all_evaluations, results, report, initialized,
                   model_specs, ctor_raised, summary,
                   printed>>

\* lines 163-180: the invocation raises, the error is recorded
InvokeFails ==
    /\ pc = "ask" /\ qi <= Len(questions)
    /\ errors' = Append(errors, ErrorResponse(ErrorText(ModelName, qi, 1),
                                              default_error_score))
    /\ invocations' = Append(invocations, Invocation(qi, 1, FALSE, 0))
    /\ pc' = "failed"
    /\ UNCHANGED <<inputs, questions, models, model_versions,
                   default_error_score, retry_failed, mi, qi, responses,
                   all_evaluations, results, report, initialized,
                   model_specs, ctor_raised, summary,
                   printed>>

\* the error of a question that succeeded on retry stays in the list
AfterPopKeeps(errs) == errs

\* errors.pop()
AfterPop(errs) == SubSeq(errs, 1, Len(errs) - 1)

\* lines 183-191: the retry returns a response, the error is removed
RetrySucceeds ==
    /\ pc = "failed" /\ retry_failed
    /\ \E s \in AnswerChoices :
          /\ responses' = Append(responses, Scored(s))
          /\ invocations' = Append(invocations, Invocation(qi, 2, TRUE, s))
    /\ errors' = AfterPop(errors)
    /\ qi' = qi + 1
    /\ pc' = "ask"
    /\ UNCHANGED <<inputs, questions, models, model_versions,
                   default_error_score, retry_failed, mi, all_evaluations,
                   results, report, initialized,
                   model_specs, ctor_raised, summary,
                   printed>>

\* a retry that is repeated until it succeeds
RetryFailsAgain ==
    /\ pc = "failed" /\ retry_failed
    /\ invocations' = Append(invocations, Invocation(qi, 2, FALSE, 0))
    /\ UNCHANGED <<inputs, pc, questions, models, model_versions,
                   default_error_score, retry_failed, mi, qi, responses, errors,
                   all_evaluations, results, report, printed, summary,
                   initialized, model_specs, ctor_raised>>

\* lines 183-193: the retry raises too
RetryFails ==
    /\ pc = "failed" /\ retry_failed
    /\ invocations' = Append(invocations, Invocation(qi, 2, FALSE, 0))
    /\ pc' = "fallback"
    /\ UNCHANGED <<inputs, questions, models, model_versions,
                   default_error_score, retry_failed, mi, qi, responses, errors,
                   all_evaluations, results, report, initialized,
                   model_specs, ctor_raised, summary,
                   printed>>

\* any non-zero default is used, whatever its range
UsableDefaultUnchecked(score) == score # 0

\* default_error_score and 1 <= default_error_score <= 5
UsableDefault(score) == score # 0 /\ MinScore <= score /\ score <= MaxScore

\* the fallback never adds a score
AfterFallbackNoScore(resp, score, i) ==
    IF Len(resp) < i THEN Append(resp, NoneResponse) ELSE resp

\* lines 195-211, for the question at 0-based position i: the responses
\* after the fallback
AfterFallback(resp, score, i) ==
    IF UsableDefault(score) THEN Append(resp, Scored(score))
    ELSE IF Len(resp) < i THEN Append(resp, NoneResponse)
    ELSE resp

\* a failure that no default score covers ends the run
UseDefaultAborts ==
    /\ \/ pc = "fallback"
       \/ pc = "failed" /\ ~retry_failed
    /\ responses' = AfterFallback(responses, default_error_score, qi - 1)
    /\ IF UsableDefault(default_error_score)
       THEN qi' = qi + 1 /\ pc' = "ask"
       ELSE qi' = qi /\ pc' = "raised"
    /\ UNCHANGED <<inputs, questions, models, model_versions,
                   default_error_score, retry_failed, mi, errors,
                   all_evaluations, results, report, initialized,
                   model_specs, ctor_raised, summary,
                   printed, invocations>>

\* lines 195-211: no retry, or the retry failed
UseDefault ==
    /\ \/ pc = "fallback"
       \/ pc = "failed" /\ ~retry_failed
    /\ responses' = AfterFallback(responses, default_error_score, qi - 1)
    /\ qi' = qi + 1
    /\ pc' = "ask"
    /\ UNCHANGED <<inputs, questions, models, model_versions,
                   default_error_score, retry_failed, mi, errors,
                   all_evaluations, results, report, initialized,
                   model_specs, ctor_raised, summary,
                   printed, invocations>>

\* the None entries stay in the responses
KeepNone(resp) == resp

\* valid_responses = [r for r in responses if r is not None]
IsResponse(r) == r.kind # "none"
ValidResponses(resp) == SelectSeq(resp, IsResponse)

\* ModelEvaluation(model_name, model_version, responses, errors)
ModelEvaluation(model_name, version, resp, errs) ==
    [model_name |-> model_name, model_version |-> version,
     responses |-> resp, errors |-> errs]

\* lines 213-223: the model's questions are done, its evaluation is built
FinishModel ==
    /\ pc = "ask" /\ qi > Len(questions)
    /\ all_evaluations' =
          Append(all_evaluations,
                 ModelEvaluation(ModelName, DictGet(model_versions, ModelName),
                                 ValidResponses(responses), errors))
    /\ responses' = <<>> /\ errors' = <<>>
    /\ qi' = 1
    /\ mi' = mi + 1
    /\ pc' = IF mi < Len(models) THEN "ask" ELSE "build"
    /\ UNCHANGED <<inputs, questions, models, model_versions,
                   default_error_score, retry_failed, results, report,
                   initialized,
                   model_specs, ctor_raised, summary,
                   printed, invocations>>

(***************************************************************************)
(* save_results (utils/results_handler.py), on results_data: the list of   *)
(* model evaluations, and the question list.  Positions are 1-based here,  *)
(* 0-based in the code.                                                    *)
(***************************************************************************)
Min(a, b) == IF a < b THEN a ELSE b

\* a cell of the score CSV: a number, "N/A", or the empty text csv writes
\* for None
CellScore(n) == [text |-> "score", score |-> n]
CellNA == [text |-> "N/A", score |-> 0]
CellEmpty == [text |-> "", score |-> 0]

\* lines 54-67: the cell of one model in the row of question i
ScoreCell(eval, i) ==
    IF i - 1 < Len(eval.responses)
    THEN CellScore(eval.responses[i].score)
    ELSE LET error_index == Min(i - 1, Len(eval.errors) - 1)
         IN  IF error_index >= 0
             THEN IF eval.errors[error_index + 1].default_score = Nothing
                  THEN CellEmpty
                  ELSE CellScore(eval.errors[error_index + 1].default_score[1])
             ELSE CellNA

\* lines 28-68: the score CSV, one row per question
ScoreCsv(evals, qs) ==
    [i \in 1..Len(qs) |->
        [question |-> qs[i].question, trait |-> qs[i].trait,
         reverse |-> qs[i].reverse,
         cells |-> [m \in 1..Len(evals) |-> ScoreCell(evals[m], i)]]]

\* trait.strip(): the trait texts of the banks explored, one of which ends
\* with a blank
Strip(text) == IF text = "Extraversion " THEN "Extraversion" ELSE text

\* a reversal for a scale that starts at 0
ReverseFromZero(score) == 5 - score

\* lines 113-115: score = 6 - score for a reverse-keyed question
ReverseTransform(score) == 6 - score
Transformed(score, is_reverse) ==
    IF is_reverse THEN ReverseTransform(score) ELSE score

\* lines 93-116: the scores that enter the trait aggregation, each with the
\* question it is paired with
RECURSIVE ContributionsFrom(_, _, _)
ContributionsFrom(eval, qs, i) ==
    IF i > Len(eval.responses) THEN <<>>
    ELSE IF i > Len(qs) THEN ContributionsFrom(eval, qs, i + 1)
    ELSE IF eval.responses[i].score # 0
         THEN <<[question |-> qs[i].question, trait |-> Strip(qs[i].trait),
                 score |-> Transformed(eval.responses[i].score, qs[i].reverse)]>>
              \o ContributionsFrom(eval, qs, i + 1)
         ELSE ContributionsFrom(eval, qs, i + 1)

Contributions(eval, qs) == ContributionsFrom(eval, qs, 1)

\* lines 75-82: the traits of the questions
Traits(qs) == {Strip(qs[i].trait) : i \in 1..Len(qs)}

RECURSIVE SumOf(_)
SumOf(seq) == IF seq = <<>> THEN 0 ELSE seq[1].score + SumOf(Tail(seq))

\* an average that is 0 for a trait without scores
TraitAverageZero(eval, qs, trait) ==
    LET scores == SelectSeq(Contributions(eval, qs),
                            LAMBDA c : c.trait = trait)
    IN  IF scores # <<>> THEN Some(<<SumOf(scores), Len(scores)>>)
        ELSE Some(<<0, 1>>)

\* lines 119-125: sum(scores) / len(scores) as the fraction <<sum, len>>, or
\* None for a trait without scores
TraitAverage(eval, qs, trait) ==
    LET scores == SelectSeq(Contributions(eval, qs),
                            LAMBDA c : c.trait = trait)
    IN  IF scores # <<>> THEN Some(<<SumOf(scores), Len(scores)>>) ELSE Nothing

\* f"{score:.2f}" of sum / count, in hundredths: the nearest hundredth, and
\* the even one when sum / count lies exactly between two (such a quotient
\* of at most 7 scores is a multiple of 1/8, which a float holds exactly)
Hundredths(sum, count) ==
    LET q == (100 * sum) \div count
        r == (100 * sum) % count
    IN  IF 2 * r < count THEN q
        ELSE IF 2 * r > count THEN q + 1
        ELSE IF q % 2 = 0 THEN q ELSE q + 1

CellAverage(avg) == [text |-> "%.2f", score |-> Hundredths(avg[1], avg[2])]

\* lines 128-144: the trait CSV, one row per trait, "N/A" for None
TraitCsv(evals, qs) ==
    [t \in Traits(qs) |->
        [m \in 1..Len(evals) |->
            LET score == TraitAverage(evals[m], qs, t)
            IN  IF score # Nothing THEN CellAverage(score[1]) ELSE CellNA]]

\* lines 159-190: the rows of the error CSV for one model
ErrorRows(eval, qs) ==
    [i \in 1..Len(eval.errors) |->
        LET question_idx == Min(i - 1, Len(qs) - 1)
        IN  [model |-> eval.model_name,
             question |-> IF question_idx >= 0
                          THEN qs[question_idx + 1].question ELSE 0,
             error |-> eval.errors[i].error]]

RECURSIVE ErrorCsvFrom(_, _, _)
ErrorCsvFrom(evals, qs, m) ==
    IF m > Len(evals) THEN <<>>
    ELSE ErrorRows(evals[m], qs) \o ErrorCsvFrom(evals, qs, m + 1)

\* lines 146-190: the error CSV, written only when some model has errors
ErrorCsv(evals, qs) == ErrorCsvFrom(evals, qs, 1)

\* what save_results writes
save_results(evals, qs) ==
    [scores |-> ScoreCsv(evals, qs),
     trait_scores |-> [m \in 1..Len(evals) |-> Contributions(evals[m], qs)],
     trait_averages |->
        [m \in 1..Len(evals) |->
            [t \in Traits(qs) |-> TraitAverage(evals[m], qs, t)]],
     trait_csv |-> TraitCsv(evals, qs),
     errors |-> ErrorCsv(evals, qs)]

\* EvaluationResults.questions is List[str]: a question object is no string
ValidQuestions(qs) == qs = <<>>

\* lines 226-229: results = EvaluationResults(questions, all_evaluations)
CreateResults ==
    /\ pc = "build"
    /\ IF ValidQuestions(questions)
       THEN /\ results' = <<[questions |-> questions,
                            model_evaluations |-> all_evaluations]>>
            /\ pc' = "save"
       ELSE pc' = "raised" /\ UNCHANGED results
    /\ UNCHANGED <<inputs, questions, models, model_versions,
                   default_error_score, retry_failed, mi, qi, responses, errors,
                   all_evaluations, report, initialized, model_specs, ctor_raised, summary,
                   printed, invocations>>

\* line 232: save_results, whose display_trait_averages takes max() over
\* the traits
SaveResults ==
    /\ pc = "save"
    /\ report' = <<save_results(results[1].model_evaluations, questions)>>
    /\ pc' = IF Traits(questions) = {} THEN "raised" ELSE "display"
    /\ UNCHANGED <<inputs, questions, models, model_versions,
                   default_error_score, retry_failed, mi, qi, responses, errors,
                   all_evaluations, results, initialized,
                   model_specs, ctor_raised, summary,
                   printed, invocations>>

\* display_results_summary, lines 43-49: the traits of the questions
SummaryTraits(qs) == {qs[i].trait : i \in 1..Len(qs)}

\* lines 60-77: the responses grouped under a trait
RECURSIVE SummaryScoresFrom(_, _, _, _)
SummaryScoresFrom(eval, qs, trait, i) ==
    IF i > Len(eval.responses) THEN <<>>
    ELSE IF i > Len(qs) THEN SummaryScoresFrom(eval, qs, trait, i + 1)
    ELSE IF qs[i].trait = trait /\ eval.responses[i].score # 0
         THEN <<eval.responses[i]>> \o SummaryScoresFrom(eval, qs, trait, i + 1)
         ELSE SummaryScoresFrom(eval, qs, trait, i + 1)

CellNoValid == [text |-> "No valid responses", score |-> 0]

\* lines 80-88: sum(scores) / len(scores) per trait, and the line shown
display_results_summary(evals, qs) ==
    [m \in 1..Len(evals) |->
        [t \in SummaryTraits(qs) |->
            LET scores == SummaryScoresFrom(evals[m], qs, t, 1)
            IN  IF scores # <<>>
                THEN [average |-> Some(<<SumOf(scores), Len(scores)>>),
                      shown |-> CellAverage(<<SumOf(scores), Len(scores)>>)]
                ELSE [average |-> Nothing, shown |-> CellNoValid]]]

\* line 235: display_results_summary(results)
DisplaySummary ==
    /\ pc = "display"
    /\ summary' = <<display_results_summary(results[1].model_evaluations,
                                            results[1].questions)>>
    /\ pc' = "done"
    /\ UNCHANGED <<inputs, questions, models, model_versions,
                   default_error_score, retry_failed, mi, qi, responses, errors,
                   all_evaluations, results, report, printed, initialized,
                   model_specs, ctor_raised, invocations>>

(***************************************************************************)
(* Inputs and specifications.                                              *)
(***************************************************************************)
NoBatch == [kind |-> "none", models |-> NoValue,
            parameters |-> [default_error_score |-> Nothing,
                            retry_failed |-> Nothing,
                            max_questions_per_batch |-> Nothing]]
UnreadableBatch == [NoBatch EXCEPT !.kind = "unreadable"]

Unreadable == [kind |-> "unreadable", items |-> <<>>]
Json(items) == [kind |-> "json", items |-> items]

Optional(S) == {Nothing} \cup {Some(v) : v \in S}

Gpt4o == SpecString("openai", "gpt-4o")
Gpt4o2024 == SpecString("openai", "gpt-4o-2024")
Claude == SpecString("anthropic", "claude-3-opus")
Grok == SpecString("xai", "grok-beta")

\* the state after the command line is read and the registry is built
InitWith(Configs, KeySets, EnvSets, Selections, Batches, Banks) ==
    /\ configs \in Configs
    /\ api_keys \in KeySets
    /\ env_false \in EnvSets
    /\ selected_model \in Selections
    /\ batch_file \in Batches
    /\ bank \in Banks
    /\ list_models \in BOOLEAN
    /\ pc = "start"
    /\ questions = <<>>
    /\ models = <<>>
    /\ model_versions = <<>>
    /\ default_error_score = FallbackDefault
    /\ retry_failed = FALSE
    /\ mi = 1 /\ qi = 1
    /\ responses = <<>> /\ errors = <<>>
    /\ all_evaluations = <<>>
    /\ results = <<>>
    /\ report = <<>>
    /\ initialized = <<>>
    /\ invocations = <<>>
    /\ model_specs = <<>>
    /\ ctor_raised = {}
    /\ printed = <<>>
    /\ summary = <<>>

\* batch files that set the policy of the run
PolicyBatches ==
    {[kind |-> "yaml", models |-> m,
      parameters |-> [default_error_score |-> d, retry_failed |-> r,
                      max_questions_per_batch |-> q]] :
        m \in {NoValue, ListOf(<<Gpt4o, Claude>>)},
        d \in Optional(DefaultScoreChoices),
        r \in {Nothing, Some(TRUE)},
        q \in {Nothing, Some(1)}}

\* runs of one or two models under every policy
Init ==
    InitWith({DefaultConfigs}, {{"openai", "anthropic"}}, {{}},
             {<<>>, Gpt4o}, {NoBatch} \cup PolicyBatches,
             {Unreadable} \cup {Json(BankOf(n)) : n \in 0..MaxQuestions})

\* a run ends before line 235: no run passes line 226 with a question and
\* line 232 without one
Next ==
    \/ ListModels
    \/ LoadQuestions
    \/ InitializeModels
    \/ Configure
    \/ InvokeSucceeds
    \/ InvokeFails
    \/ RetrySucceeds
    \/ RetryFails
    \/ UseDefault
    \/ FinishModel
    \/ CreateResults
    \/ SaveResults

Spec == Init /\ [][Next]_vars

\* entries a batch file may request: configured ones, one without a colon,
\* one of an unknown provider, one of an unknown model id
RequestChoices == {Gpt4o, Gpt4o2024, Grok, <<"gpt-4o">>,
                   SpecString("mistral", "large"), SpecString("openai", "gpt-5")}

RECURSIVE ListsUpTo(_)
ListsUpTo(n) ==
    IF n = 0 THEN {<<>>}
    ELSE LET shorter == ListsUpTo(n - 1)
         IN  shorter \cup {Append(l, e) : l \in shorter, e \in RequestChoices}

\* batch files that select models: a list, a single string, or no models key
SelectionBatches ==
    {[NoBatch EXCEPT !.kind = "yaml", !.models = m] :
        m \in {ListOf(l) : l \in ListsUpTo(MaxRequested)}
              \cup {NoValue, StrOf(Gpt4o)}}
    \cup {[NoBatch EXCEPT !.kind = "yaml", !.models = ListOf(<<Gpt4o>>),
                          !.parameters.retry_failed = Some(TRUE)]}

\* every way of selecting models, on short question banks
InitRegistry ==
    InitWith(ConfigChoices, {{}, {"openai"}, {"openai", "xai"}},
             {{}, {EnvVar("openai", "gpt-4o")}},
             {<<>>, Grok, Gpt4o2024},
             {NoBatch, UnreadableBatch} \cup SelectionBatches,
             {Json(BankOf(n)) : n \in 0..RegMaxQuestions})

SpecRegistry == InitRegistry /\ [][Next]_vars

(***************************************************************************)
(* save_results and display_results_summary as functions of their          *)
(* arguments: the state at line 232 with any short question list and any   *)
(* short lists of responses.                                               *)
(***************************************************************************)
\* trait texts of the questions: two traits, one also written with a
\* trailing blank
ReportTraits == {"Extraversion", "Extraversion ", "Neuroticism"}

\* the question lists of length n
QuestionLists(n) ==
    {[i \in 1..n |-> [question |-> i, trait |-> f[i][1], reverse |-> f[i][2]]] :
        f \in [1..n -> ReportTraits \X BOOLEAN]}

\* the response lists of length n: every score a PersonalityResponse holds
ResponseLists(n) == [1..n -> {Scored(v) : v \in MinScore..MaxScore}]

\* the evaluation of a second model, the same in every report
SecondEvaluation ==
    ModelEvaluation("Claude 3 Opus", DefaultConfigs["anthropic"]["claude-3-opus"].version,
                    <<Scored(4)>>, <<>>)

ReportEvaluations ==
    LET firsts ==
          {ModelEvaluation("GPT-4o", DefaultConfigs["openai"]["gpt-4o"].version,
                           resp, errs) :
              resp \in UNION {ResponseLists(n) : n \in 0..MaxReportItems},
              errs \in {<<>>,
                        <<ErrorResponse(ErrorText("GPT-4o", 1, 1), FallbackDefault)>>}}
    IN  {<<e>> : e \in firsts} \cup {<<e, SecondEvaluation>> : e \in firsts}

InitReport ==
    /\ configs = DefaultConfigs
    /\ api_keys = {"openai", "anthropic"}
    /\ env_false = {}
    /\ selected_model = <<>>
    /\ batch_file = NoBatch
    /\ list_models = FALSE
    /\ questions \in UNION {QuestionLists(n) : n \in 0..MaxReportItems}
    /\ bank = Json(questions)
    /\ all_evaluations \in ReportEvaluations
    /\ results = <<[questions |-> questions,
                    model_evaluations |-> all_evaluations]>>
    /\ pc = "save"
    /\ models = WithStructuredOutput(
                    [m \in 1..Len(all_evaluations) |->
                        [name |-> all_evaluations[m].model_name,
                         value |-> IF m = 1 THEN Gpt4o ELSE Claude]])
    /\ model_versions =
          [m \in 1..Len(all_evaluations) |->
              [name |-> all_evaluations[m].model_name,
               value |-> all_evaluations[m].model_version]]
    /\ default_error_score = FallbackDefault
    /\ retry_failed = FALSE
    /\ mi = Len(all_evaluations) + 1 /\ qi = 1
    /\ responses = <<>> /\ errors = <<>>
    /\ report = <<>>
    /\ printed = <<>>
    /\ summary = <<>>
    /\ initialized = <<>>
    /\ model_specs = <<>>
    /\ ctor_raised = {}
    /\ invocations = <<>>

NextReport ==
    \/ SaveResults
    \/ DisplaySummary

SpecReport == InitReport /\ [][NextReport]_vars

(***************************************************************************)
(* What the invocation log says of a model (by name) and a question.       *)
(***************************************************************************)
Invoked(name, q) ==
    \E i \in 1..Len(invocations) :
        invocations[i].model = name /\ invocations[i].question = q

FirstFailed(name, q) ==
    \E i \in 1..Len(invocations) :
        /\ invocations[i].model = name /\ invocations[i].question = q
        /\ invocations[i].attempt = 1 /\ ~invocations[i].ok

RetrySucceeded(name, q) ==
    \E i \in 1..Len(invocations) :
        /\ invocations[i].model = name /\ invocations[i].question = q
        /\ invocations[i].attempt = 2 /\ invocations[i].ok

RetryFailed(name, q) ==
    \E i \in 1..Len(invocations) :
        /\ invocations[i].model = name /\ invocations[i].question = q
        /\ invocations[i].attempt = 2 /\ ~invocations[i].ok

Answered(name, q) ==
    \E i \in 1..Len(invocations) :
        /\ invocations[i].model = name /\ invocations[i].question = q
        /\ invocations[i].ok

AnswerOf(name, q) ==
    invocations[CHOOSE i \in 1..Len(invocations) :
                   /\ invocations[i].model = name
                   /\ invocations[i].question = q
                   /\ invocations[i].ok].score

\* the invocation failed, and the retry failed or was not made
FailedFinally(name, q) == FirstFailed(name, q) /\ ~Answered(name, q)

\* the questions of the run
QuestionIds == 1..Len(questions)

\* question q of a finished model received a score
GotScore(name, q) ==
    Answered(name, q) \/ default_error_score \in MinScore..MaxScore

\* where the score of question q stands among the scores of the model
ScoreIndex(name, q) == Cardinality({k \in 1..q : GotScore(name, k)})

\* the positions of the error records of question q
ErrorsFor(eval, q) ==
    {i \in 1..Len(eval.errors) : eval.errors[i].error.question = q}

Finished == 1..Len(all_evaluations)

\* default_error_score as the batch file gives it
ConfiguredDefault ==
    IF batch_file.kind = "yaml"
    THEN batch_file.parameters.default_error_score ELSE Nothing

(***************************************************************************)
(* C1: with retry_failed, a question whose first invocation fails and      *)
(* whose retry succeeds leaves no error record in the model's final        *)
(* errors, its retry response is in the responses exactly once, and the    *)
(* error records of the model's earlier questions are as they were made.   *)
(***************************************************************************)
C1_RetrySuccessDropsError ==
    \A m \in Finished :
        LET eval == all_evaluations[m]
            name == eval.model_name
        IN  \A q \in QuestionIds :
                (retry_failed /\ FirstFailed(name, q) /\ RetrySucceeded(name, q))
                => /\ ErrorsFor(eval, q) = {}
                   /\ Len(eval.responses) = ScoreIndex(name, Len(questions))
                   /\ eval.responses[ScoreIndex(name, q)] = Scored(AnswerOf(name, q))
                   /\ \A k \in 1..(q - 1) :
                         FailedFinally(name, k)
                         => /\ Cardinality(ErrorsFor(eval, k)) = 1
                            /\ \A i \in ErrorsFor(eval, k) :
                                  eval.errors[i].error = ErrorText(name, k, 1)

\* a finished model whose question failed twice and whose next question
\* succeeded on retry
C1_Witness ==
    \E m \in Finished :
        \E q \in QuestionIds : \E k \in 1..(q - 1) :
            /\ retry_failed
            /\ FirstFailed(all_evaluations[m].model_name, q)
            /\ RetrySucceeded(all_evaluations[m].model_name, q)
            /\ RetryFailed(all_evaluations[m].model_name, k)

(***************************************************************************)
(* C2: a question whose invocation fails, and whose retry fails or is not  *)
(* made, gets exactly one Scored outcome with default_error_score when     *)
(* that is within 1..5, and its error record is kept.                      *)
(***************************************************************************)
C2_DefaultScoreOnFailure ==
    \A m \in Finished :
        LET eval == all_evaluations[m]
            name == eval.model_name
        IN  \A q \in QuestionIds :
                (default_error_score \in MinScore..MaxScore
                    /\ FailedFinally(name, q))
                => /\ Len(eval.responses) = Len(questions)
                   /\ eval.responses[q] = Scored(default_error_score)
                   /\ Cardinality(ErrorsFor(eval, q)) = 1
                   /\ \A i \in ErrorsFor(eval, q) :
                         eval.errors[i] =
                            [error |-> ErrorText(name, q, 1),
                             default_score |-> Some(default_error_score)]

\* a finished model with a question that failed twice under a default of 5,
\* and one with a question that failed once without retry
C2_Witness ==
    \E m \in Finished : \E q \in QuestionIds :
        /\ default_error_score = 5
        /\ RetryFailed(all_evaluations[m].model_name, q)
        /\ \E k \in QuestionIds : Answered(all_evaluations[m].model_name, k)

(***************************************************************************)
(* C3 as stated: when default_error_score is absent from the policy or is  *)
(* outside 1..5, a question whose invocation (and retry) fails adds no     *)
(* entry to the model's responses: the responses are those of the          *)
(* questions that were answered.                                           *)
(***************************************************************************)
OnlyAnswers(eval) ==
    /\ Len(eval.responses) =
          Cardinality({k \in QuestionIds : Answered(eval.model_name, k)})
    /\ \A k \in QuestionIds :
          Answered(eval.model_name, k)
          => eval.responses[Cardinality({j \in 1..k : Answered(eval.model_name, j)})]
                = Scored(AnswerOf(eval.model_name, k))

C3_Original ==
    \A m \in Finished : \A q \in QuestionIds :
        (/\ \/ ConfiguredDefault = Nothing
            \/ ConfiguredDefault[1] \notin MinScore..MaxScore
         /\ FailedFinally(all_evaluations[m].model_name, q))
        => OnlyAnswers(all_evaluations[m])

(***************************************************************************)
(* C3 amended: when the batch parameters give default_error_score a value  *)
(* outside 1..5 (0 and null included), a failing question adds no entry to *)
(* the model's responses; when the policy has no default_error_score, the  *)
(* default 3 is used and the failing question gets the score 3.            *)
(***************************************************************************)
C3_NoScoreWhenOutOfRange ==
    \A m \in Finished : \A q \in QuestionIds :
        FailedFinally(all_evaluations[m].model_name, q)
        => /\ (ConfiguredDefault # Nothing
                 /\ ConfiguredDefault[1] \notin MinScore..MaxScore)
              => OnlyAnswers(all_evaluations[m])
           /\ ConfiguredDefault = Nothing
              => /\ Len(all_evaluations[m].responses) = Len(questions)
                 /\ all_evaluations[m].responses[q] = Scored(FallbackDefault)

\* a finished model under a default of 6 whose first question failed and
\* whose second was answered
C3_Witness ==
    \E m \in Finished :
        /\ ConfiguredDefault = Some(6)
        /\ Len(questions) >= 2
        /\ FailedFinally(all_evaluations[m].model_name, 1)
        /\ Answered(all_evaluations[m].model_name, 2)

(***************************************************************************)
(* C4 as stated: without retry and without a usable default score, a       *)
(* failing question at position k adds no score and leaves the pairing of  *)
(* later outcomes alone: the score of every later answered question j      *)
(* enters the trait aggregation paired with question j (its trait and its  *)
(* reverse flag) and stands in the row of question j of the score CSV.     *)
(***************************************************************************)
C4_Original ==
    \A m \in Finished :
        LET eval == all_evaluations[m]
            name == eval.model_name
        IN  \A j \in QuestionIds : \A k \in 1..(j - 1) :
                (/\ ~retry_failed
                 /\ ~UsableDefault(default_error_score)
                 /\ FailedFinally(name, k)
                 /\ Answered(name, j))
                => /\ \E c \in 1..Len(Contributions(eval, questions)) :
                         Contributions(eval, questions)[c] =
                            [question |-> questions[j].question,
                             trait |-> questions[j].trait,
                             score |-> Transformed(AnswerOf(name, j),
                                                   questions[j].reverse)]
                   /\ ScoreCsv(all_evaluations, questions)[j].cells[m]
                         = CellScore(AnswerOf(name, j))

(***************************************************************************)
(* C5 as stated: with default_error_score = 3 and no retry, for every      *)
(* question whose call raises, the score CSV holds 3 in the row of that    *)
(* question under the model's column, and the error CSV holds a row with   *)
(* that model, that question and the error text of the call.               *)
(***************************************************************************)
C5_Original ==
    \A m \in Finished :
        LET eval == all_evaluations[m]
            name == eval.model_name
        IN  \A q \in QuestionIds :
                (/\ default_error_score = 3
                 /\ ~retry_failed
                 /\ FirstFailed(name, q))
                => /\ ScoreCsv(all_evaluations, questions)[q].cells[m]
                         = CellScore(3)
                   /\ \E r \in 1..Len(ErrorCsv(all_evaluations, questions)) :
                         ErrorCsv(all_evaluations, questions)[r] =
                            [model |-> name,
                             question |-> questions[q].question,
                             error |-> ErrorText(name, q, 1)]

(***************************************************************************)
(* C6: a failed invocation, a failed retry included, never ends the run:   *)
(* while questions are being asked the runner always has a next step, the  *)
(* run raises only before the first or after the last model, and once the  *)
(* models are evaluated every initialized model has been invoked on every  *)
(* question.                                                               *)
(***************************************************************************)
Asking == pc \in {"ask", "failed", "fallback"}

ModelsEvaluated == models # <<>> /\ Len(all_evaluations) = Len(models)

C6_FailureNeverAborts ==
    /\ Asking => ENABLED Next
    /\ pc = "raised" => (models = <<>> \/ ModelsEvaluated)
    /\ ModelsEvaluated
       => \A i \in 1..Len(models) : \A q \in QuestionIds :
             Invoked(models[i].name, q)

\* two models are evaluated, and the first question of the first model
\* failed twice
C6_Witness ==
    /\ ModelsEvaluated
    /\ Len(models) = 2 /\ Len(questions) = 2
    /\ RetryFailed(models[1].name, 1)
    /\ Invoked(models[2].name, 2)

(***************************************************************************)
(* C7: for every ModelEvaluation, the number of responses plus the number  *)
(* of error records whose question received no score is the number of      *)
(* questions asked.                                                        *)
(***************************************************************************)
C7_OutcomeCount ==
    \A m \in Finished :
        LET eval == all_evaluations[m]
        IN  Len(eval.responses)
            + Cardinality({i \in 1..Len(eval.errors) :
                             ~GotScore(eval.model_name,
                                       eval.errors[i].error.question)})
            = Len(questions)

\* a finished model with a response, an error that a default score covers
\* not, and two questions
C7_Witness ==
    \E m \in Finished :
        /\ Len(questions) = 2
        /\ Len(all_evaluations[m].responses) = 1
        /\ Len(all_evaluations[m].errors) = 1
        /\ ~UsableDefault(default_error_score)

(***************************************************************************)
(* C8 as stated: once the models are evaluated, there are as many          *)
(* ModelEvaluation records as entries that initialized, each initialized   *)
(* entry has exactly one of them, and an entry that was skipped or failed  *)
(* to initialize has none.                                                 *)
(***************************************************************************)
InitializedEntries == {initialized[i] : i \in 1..Len(initialized)}

\* the evaluations made with the client of an entry
EvaluationsOf(entry) ==
    {m \in Finished : models[m].value.client = entry}

C8_Original ==
    (pc \in {"build", "save", "done"})
    => /\ Len(all_evaluations) = Cardinality(InitializedEntries)
       /\ \A entry \in InitializedEntries :
             Cardinality(EvaluationsOf(entry)) = 1
       /\ \A m \in Finished : models[m].value.client \in InitializedEntries

(***************************************************************************)
(* C9: when no model initializes (an unreadable batch file included), the  *)
(* run ends before any model is invoked and before any report is written.  *)
(***************************************************************************)
InitializeRan == pc \notin {"start", "initialize", "exit"} /\ bank.kind = "json"

C9_NoModelsNoRun ==
    /\ (InitializeRan /\ initialized = <<>>)
       => (pc = "no_models" /\ invocations = <<>> /\ results = <<>>
             /\ report = <<>>)
    /\ batch_file.kind = "unreadable" => initialized = <<>>
    /\ ~InitializeRan => (invocations = <<>> /\ report = <<>>)

\* the batch file cannot be read while a configured model has its key
C9_Witness ==
    /\ pc = "no_models"
    /\ batch_file.kind = "unreadable"
    /\ list_available_models # <<>>

(***************************************************************************)
(* C10 as stated: a batch configuration, whenever given, has its models    *)
(* list used; otherwise the single-model selection is used; only when      *)
(* neither is given is the list of every available model used.             *)
(***************************************************************************)
\* the models list of the batch file, a single string being a list of one
BatchList ==
    IF batch_file.models.type = "str" THEN <<batch_file.models.val>>
    ELSE batch_file.models.val

C10_Original ==
    (InitializeRan /\ batch_file.kind # "unreadable")
    => model_specs = IF batch_file.kind = "yaml" THEN BatchList
                     ELSE IF selected_model # <<>> THEN <<selected_model>>
                     ELSE list_available_models

(***************************************************************************)
(* C10 amended: the models list of a readable batch configuration is used  *)
(* whenever it is not empty, overriding a single-model selection; when no  *)
(* batch is given or its models list is missing or empty, the single-model *)
(* selection is used; only when neither names an entry is the list of      *)
(* every available model used.                                             *)
(***************************************************************************)
C10_SelectionPrecedence ==
    (InitializeRan /\ batch_file.kind # "unreadable")
    => model_specs = IF batch_file.kind = "yaml" /\ BatchList # <<>>
                     THEN BatchList
                     ELSE IF selected_model # <<>> THEN <<selected_model>>
                     ELSE list_available_models

\* a batch list and a single selection are both given and differ, and
\* every configured model is not what either names
C10_Witness ==
    /\ InitializeRan
    /\ batch_file.kind = "yaml" /\ BatchList # <<>>
    /\ selected_model # <<>> /\ BatchList # <<selected_model>>
    /\ list_available_models # BatchList
    /\ model_specs = BatchList

(***************************************************************************)
(* C11: in initialize_models a requested entry that has no ":", names an   *)
(* unknown provider or an unknown model id, lacks the credential of its    *)
(* provider, has its ENABLE_<PROVIDER>_<MODEL> variable set to false, or    *)
(* whose constructor raises, is skipped and the loop goes on: the entries  *)
(* initialized are exactly the other requested entries, in the order       *)
(* requested, each under its name in both returned mappings, and an entry  *)
(* skipped wherever it is listed has neither its client in models nor its  *)
(* version in model_versions.                                              *)
(***************************************************************************)
Requested == 1..Len(model_specs)

\* the entry at position k has the form provider:model_id, names a
\* configured model of a provider with a credential, and is not switched off
PassesChecks(k) ==
    LET entry == model_specs[k]
    IN  /\ \E i \in 1..Len(entry) : entry[i] = Colon
        /\ LET provider == AsKey(SplitSpec(entry).provider)
               model_id == AsKey(SplitSpec(entry).model_id)
           IN  /\ provider \in DOMAIN configs
               /\ model_id \in DOMAIN configs[provider]
               /\ provider \in api_keys
               /\ <<"ENABLE", Normalize(provider), Normalize(model_id)>>
                     \notin env_false

SkippedAt(k) == ~PassesChecks(k) \/ k \in ctor_raised

KeptPositions == {k \in Requested : ~SkippedAt(k)}

\* the client stored in an item of models (wrapped by with_structured_output
\* once the run is configured)
ClientOf(item) ==
    IF pc \in {"configure", "no_models"} THEN item.value ELSE item.value.client

C11_SkipsAndContinues ==
    InitializeRan
    => /\ Len(initialized) = Cardinality(KeptPositions)
       /\ \A k \in KeptPositions :
             LET entry == model_specs[k]
             IN  /\ initialized[Cardinality({j \in KeptPositions : j <= k})]
                       = entry
                 /\ \E i \in 1..Len(models) :
                       models[i].name = ConfigOf(entry).name
                 /\ \E i \in 1..Len(model_versions) :
                       model_versions[i].name = ConfigOf(entry).name
       /\ \A k \in Requested :
             LET entry == model_specs[k]
             IN  (\A j \in Requested : model_specs[j] = entry => SkippedAt(j))
                 => /\ \A i \in 1..Len(models) : ClientOf(models[i]) # entry
                    /\ PassesChecks(k)
                       => \A i \in 1..Len(model_versions) :
                             model_versions[i].value # ConfigOf(entry).version
       /\ Len(models) = Len(model_versions)

\* the constructor of the first requested entry raised and the second
\* entry, a different one, was initialized
C11_Witness ==
    /\ pc = "configure"
    /\ Len(model_specs) = 2
    /\ 1 \in ctor_raised
    /\ model_specs[1] # model_specs[2]
    /\ initialized = <<model_specs[2]>>

\* the first requested entry fails a check and the second was initialized
C11_WitnessCheck ==
    /\ pc = "configure"
    /\ Len(model_specs) = 2
    /\ ~PassesChecks(1)
    /\ initialized = <<model_specs[2]>>

(***************************************************************************)
(* C12: list_available_models returns exactly the provider:model_id        *)
(* identifiers of the configured models whose provider has a credential,   *)
(* each once, and none of a provider without one; with the OpenAI          *)
(* credential alone among three configured providers, only openai entries. *)
(* With --list-models the process prints this list and exits: no model is  *)
(* constructed or invoked, and nothing else runs.                          *)
(***************************************************************************)
\* the identifiers of the configured models of providers with a credential
CredentialedIds ==
    UNION {{<<provider, Colon, model_id>> : model_id \in DOMAIN configs[provider]}
              : provider \in DOMAIN configs \cap api_keys}

C12_ListAvailable ==
    /\ pc = "exit"
       => /\ list_models
          /\ {printed[i] : i \in 1..Len(printed)} = CredentialedIds
          /\ Len(printed) = Cardinality(CredentialedIds)
          /\ api_keys = {"openai"}
             => \A i \in 1..Len(printed) : printed[i][1] = "openai"
    /\ list_models
       => /\ pc \in {"start", "exit"}
          /\ invocations = <<>> /\ initialized = <<>>
          /\ results = <<>> /\ report = <<>>
    /\ ~list_models => printed = <<>>

\* three providers are configured, only the OpenAI credential is set, and
\* the list was printed
C12_Witness ==
    /\ pc = "exit"
    /\ DOMAIN configs = {"openai", "anthropic", "xai"}
    /\ api_keys = {"openai"}
    /\ printed = <<SpecString("openai", "gpt-4o")>>

(***************************************************************************)
(* C13: in the trait aggregation of save_results a score s in 1..5 paired  *)
(* with a question whose reverse flag is set contributes 6 - s to the      *)
(* trait of that question (2 contributes 4), a score paired with a         *)
(* question without the flag contributes s unchanged, the contribution is  *)
(* again in 1..5, and reversing a reversed score gives s back.             *)
(***************************************************************************)
\* the arguments of save_results
ReportEvals == results[1].model_evaluations
\* the positions at which evaluation m has a response and a question
Paired(m) == 1..Min(Len(ReportEvals[m].responses), Len(questions))

C13_ReverseTransform ==
    report # <<>>
    => \A m \in 1..Len(ReportEvals) :
          /\ Len(report[1].trait_scores[m]) = Cardinality(Paired(m))
          /\ \A i \in Paired(m) :
                LET s == ReportEvals[m].responses[i].score
                    c == report[1].trait_scores[m][i]
                IN  /\ c.question = questions[i].question
                    /\ c.score = IF questions[i].reverse THEN 6 - s ELSE s
                    /\ c.score \in MinScore..MaxScore
                    /\ questions[i].reverse
                       => (ReverseTransform(c.score) = s /\ 6 - c.score = s)

\* a score 2 paired with a reverse-keyed question went into the report as 4
C13_Witness ==
    /\ report # <<>>
    /\ \E i \in Paired(1) :
          /\ questions[i].reverse
          /\ ReportEvals[1].responses[i].score = 2
          /\ report[1].trait_scores[1][i].score = 4

(***************************************************************************)
(* C14: for every model and trait, the trait average of save_results is    *)
(* the sum of the post-reverse-transform scores of the model's scored      *)
(* questions tagged with the trait, divided by their count, and the trait  *)
(* CSV shows it to the nearest hundredth; a trait none of the model's      *)
(* scored questions is tagged with has the average None, written "N/A",    *)
(* never 0.                                                                *)
(***************************************************************************)
\* the traits the questions are tagged with, blanks around them dropped
TaggedTraits == {Strip(questions[i].trait) : i \in 1..Len(questions)}

\* the scored questions of evaluation m tagged with trait t
ScoredWith(m, t) == {i \in Paired(m) : Strip(questions[i].trait) = t}

\* the sum of the post-reverse-transform scores over a set of positions
RECURSIVE PostTransformSum(_, _)
PostTransformSum(m, P) ==
    IF P = {} THEN 0
    ELSE LET i == CHOOSE j \in P : TRUE
             s == ReportEvals[m].responses[i].score
         IN  (IF questions[i].reverse THEN 6 - s ELSE s)
             + PostTransformSum(m, P \ {i})

C14_TraitAverage ==
    report # <<>>
    => /\ DOMAIN report[1].trait_csv = TaggedTraits
       /\ \A m \in 1..Len(ReportEvals) :
             /\ DOMAIN report[1].trait_averages[m] = TaggedTraits
             /\ \A t \in TaggedTraits :
                   LET P == ScoredWith(m, t)
                       total == PostTransformSum(m, P)
                       count == Cardinality(P)
                       average == report[1].trait_averages[m][t]
                       cell == report[1].trait_csv[t][m]
                   IN  IF P = {}
                       THEN average = Nothing /\ cell.text = "N/A"
                       ELSE /\ average = Some(<<total, count>>)
                            /\ cell.text = "%.2f"
                            /\ 200 * total - count <= 2 * (cell.score * count)
                            /\ 2 * (cell.score * count) <= 200 * total + count
                            /\ cell.score >= 100 * MinScore

\* the first model has a scored reverse-keyed question under one trait and
\* no scored question under another trait, which the trait CSV shows as N/A
C14_Witness ==
    /\ report # <<>>
    /\ \E t, u \in TaggedTraits :
          /\ \E i \in ScoredWith(1, t) : questions[i].reverse
          /\ ScoredWith(1, u) = {}
          /\ report[1].trait_averages[1][u] = Nothing
          /\ report[1].trait_csv[u][1].text = "N/A"
          /\ report[1].trait_averages[1][t] # Nothing

(***************************************************************************)
(* C15 as stated: every run in which the question bank loads and at least  *)
(* one model initializes eventually builds an EvaluationResults and hands  *)
(* it to save_results.  A run that has stopped on an exception takes no    *)
(* further step, so the claim requires that such a run, when it stopped,   *)
(* had already built the results and called save_results.                  *)
(***************************************************************************)
C15_Original ==
    (pc = "raised" /\ bank.kind = "json" /\ initialized # <<>>)
    => (results # <<>> /\ report # <<>>)

(***************************************************************************)
(* C16: each (model, question) pair is invoked at most twice; there is a   *)
(* second invocation only if retry_failed is set and the first one failed, *)
(* and then exactly one retry is made; a first invocation that succeeded   *)
(* is followed by no other invocation of the pair.                         *)
(***************************************************************************)
\* the positions in the log of the invocations of a pair
InvocationsOf(name, q) ==
    {i \in 1..Len(invocations) :
        invocations[i].model = name /\ invocations[i].question = q}

FirstOf(name, q) ==
    CHOOSE i \in InvocationsOf(name, q) :
        \A j \in InvocationsOf(name, q) : i <= j

ModelNames == {models[i].name : i \in 1..Len(models)}

\* the questions of the model are done
IsFinished(name) == \E m \in Finished : all_evaluations[m].model_name = name

C16_AtMostOneRetry ==
    /\ \A i \in 1..Len(invocations) :
          /\ invocations[i].model \in ModelNames
          /\ invocations[i].question \in QuestionIds
    /\ \A name \in ModelNames : \A q \in QuestionIds :
          LET made == InvocationsOf(name, q)
              count == Cardinality(made)
          IN  /\ count <= 2
              /\ IsFinished(name) => count >= 1
              /\ count >= 1
                 => LET first_ok == invocations[FirstOf(name, q)].ok
                    IN  /\ count = 2 => (retry_failed /\ ~first_ok)
                        /\ first_ok => count = 1
                        /\ (IsFinished(name) /\ retry_failed /\ ~first_ok)
                           => count = 2

\* a finished model answered one question at once and had another retried
C16_Witness ==
    \E name \in ModelNames : \E q, r \in QuestionIds :
        /\ IsFinished(name)
        /\ Cardinality(InvocationsOf(name, q)) = 2
        /\ Cardinality(InvocationsOf(name, r)) = 1
        /\ invocations[FirstOf(name, r)].ok

(***************************************************************************)
(* C17: invocations are made one at a time and in order: the invocation of *)
(* a question (and its retry) comes before that of the next question, all  *)
(* invocations of one model come before those of the next model in the     *)
(* order of the registry, and the responses and the errors of a model      *)
(* stand in the order of the questions that produced them.                 *)
(***************************************************************************)
\* the position of a model in the registry's mapping
ModelPos(name) == CHOOSE i \in 1..Len(models) : models[i].name = name

\* the score question q left in the responses of a model
ScoreLeft(name, q) ==
    IF Answered(name, q) THEN AnswerOf(name, q) ELSE default_error_score

C17_InOrder ==
    /\ \A i \in 1..Len(invocations) : \A j \in (i + 1)..Len(invocations) :
          LET a == invocations[i]
              b == invocations[j]
          IN  \/ a.model = b.model /\ a.question < b.question
              \/ a.model = b.model /\ a.question = b.question /\ ~a.ok
              \/ ModelPos(a.model) < ModelPos(b.model)
    /\ \A i \in 1..Len(invocations) :
          /\ ModelPos(invocations[i].model) <= mi
          /\ ModelPos(invocations[i].model) = mi
             => invocations[i].question <= qi
    /\ \A m \in Finished :
          LET eval == all_evaluations[m]
              name == eval.model_name
          IN  /\ name = models[m].name
              /\ \A a, b \in 1..Len(eval.errors) :
                    a < b => eval.errors[a].error.question
                               < eval.errors[b].error.question
              /\ Len(eval.responses) =
                    Cardinality({q \in QuestionIds : GotScore(name, q)})
              /\ \A q \in QuestionIds :
                    GotScore(name, q)
                    => eval.responses[ScoreIndex(name, q)]
                          = Scored(ScoreLeft(name, q))

\* two models were each asked two questions, and the second model has two
\* different scores and an error in its evaluation
C17_Witness ==
    /\ ModelsEvaluated
    /\ Len(models) = 2 /\ Len(questions) = 2
    /\ Len(all_evaluations[2].responses) = 2
    /\ all_evaluations[2].responses[1] # all_evaluations[2].responses[2]
    /\ all_evaluations[2].errors # <<>>
    /\ all_evaluations[1].errors # <<>>

(***************************************************************************)
(* C18 as stated: for every model and trait, the average shown by          *)
(* display_results_summary is the average save_results and                 *)
(* display_trait_averages compute from the same responses and questions.   *)
(***************************************************************************)
C18_Original ==
    (report # <<>> /\ summary # <<>>)
    => \A m \in 1..Len(ReportEvals) : \A t \in TaggedTraits :
          /\ t \in DOMAIN summary[1][m]
          /\ summary[1][m][t].average = report[1].trait_averages[m][t]

(***************************************************************************)
(* C19 as stated: an error record kept for a question has a default_score  *)
(* exactly when a fallback score of that value was added to the responses  *)
(* for the question, so every stored default_score, and every score CSV    *)
(* cell taken from one, lies in 1..5, whatever default_error_score is      *)
(* configured.                                                             *)
(***************************************************************************)
\* the fallback added the score v to the responses for question q
FallbackAdded(eval, q, v) ==
    /\ GotScore(eval.model_name, q) /\ ~Answered(eval.model_name, q)
    /\ eval.responses[ScoreIndex(eval.model_name, q)] = Scored(v)

\* the cells of the score CSV that come from an error record
CellsFromErrors(m) ==
    {ScoreCell(all_evaluations[m], i) :
        i \in (Len(all_evaluations[m].responses) + 1)..Len(questions)}

C19_Original ==
    \A m \in Finished :
        LET eval == all_evaluations[m]
        IN  /\ \A i \in 1..Len(eval.errors) :
                  LET q == eval.errors[i].error.question
                      kept == eval.errors[i].default_score
                  IN  /\ kept # Nothing
                         => (kept[1] \in MinScore..MaxScore
                               /\ FallbackAdded(eval, q, kept[1]))
                      /\ kept = Nothing
                         => ~GotScore(eval.model_name, q)
            /\ \A cell \in CellsFromErrors(m) :
                  cell.text = "score" => cell.score \in MinScore..MaxScore

=============================================================================
